---- MODULE Spec2Model ----
(***************************************************************************)
(* Model of build.py: the versioned workspace synchronisation and the      *)
(* marker-guarded patch / inject / commit steps of the PX4 + pymavlink     *)
(* build driver.                                                           *)
(*                                                                         *)
(* The file system below build/<PX4_VERSION> is the set `fs` of existing   *)
(* paths plus the content of the two checkouts.  One run of main() is a    *)
(* walk of `pc` through the external invocations of the script; every      *)
(* invocation may fail (check_call raises, the run aborts) and a signal    *)
(* may end the run between any two steps.  Runs repeat on the same disk.   *)
(***************************************************************************)
EXTENDS Integers, Sequences, FiniteSets, TLC

\* ---------------------------------------------------------------- bounds
MaxPatch == 1      \* patch numbers 0..MaxPatch of the version strings tried
MaxTargets == 2    \* at most this many --targets in one run
MaxCount == 2      \* applied-patch / commit counters saturate here
MaxDepth == 2      \* cap on nested clone_px4 frames

\* ------------------------------------------------ strings as code points
\* A version string is the sequence of its code points; Python compares
\* str values lexicographically by code point, a proper prefix being less.
RECURSIVE StrLess(_, _)
StrLess(a, b) ==
    IF b = <<>> THEN FALSE
    ELSE IF a = <<>> THEN TRUE
    ELSE IF Head(a) < Head(b) THEN TRUE
    ELSE IF Head(a) > Head(b) THEN FALSE
    ELSE StrLess(Tail(a), Tail(b))

\* a > b
StrGt(a, b) == StrLess(b, a)

RECURSIVE StrGeq(_, _)
StrGeq(a, b) ==
    IF b = <<>> THEN TRUE
    ELSE IF a = <<>> THEN FALSE
    ELSE IF Head(a) > Head(b) THEN TRUE
    ELSE IF Head(a) < Head(b) THEN FALSE
    ELSE StrGeq(Tail(a), Tail(b))

RECURSIVE Digits(_)
Digits(n) == IF n < 10 THEN <<48 + n>> ELSE Digits(n \div 10) \o <<48 + (n % 10)>>

\* "v1.<minor>.<patch>"
MkVersion(minor, patch) == <<118, 49, 46>> \o Digits(minor) \o <<46>> \o Digits(patch)

\* "v1.13.0"
THRESHOLD == <<118, 49, 46, 49, 51, 46, 48>>

Minors == {9, 12, 13}
Versions == { MkVersion(m, p) : m \in Minors, p \in 0..MaxPatch }
NoVersion == <<>>

\* ------------------------------------------------------------------ state
VARIABLES
    PX4_VERSION,    \* content of .px4-version, read at import
    fs,             \* set of paths that exist below THIS_DIR/build
    px4Local,       \* version the checkout at PX4_DIR declares for origin
    px4Applied,     \* times the firmware patch sits in the PX4 working tree
    px4Dirty,       \* PX4 tree has changes of its own not yet committed
    commits,        \* synthetic commits on top of the cloned tag
    pymApplied,     \* times the pymavlink patch sits in the pymavlink tree
    pymDefs,        \* message_definitions/v1.0 of pymavlink was replaced
    pc,             \* position of the run
    depth,          \* clone_px4 frames below the current one
    local_version,  \* local_version of the clone_px4 frame that queried origin
    flags,          \* arguments of main
    tgt,            \* targets already built by build_px4
    rc,             \* exit status of the last external invocation
    calls,          \* operations issued by the current run, in order
    rerun           \* the previous run finished and had the same arguments

vars == <<PX4_VERSION, fs, px4Local, px4Applied, px4Dirty, commits, pymApplied,
          pymDefs, pc, depth, local_version, flags, tgt, rc, calls, rerun>>

disk == <<fs, px4Local, px4Applied, px4Dirty, commits, pymApplied, pymDefs>>

\* ------------------------------------------------------------------ paths
BUILD_DIR == <<"build", "PX4_VERSION">>
PX4_DIR == BUILD_DIR \o <<"PX4-Autopilot">>
PymavlinkTop == BUILD_DIR \o <<"pymavlink">>
PymavlinkNested == PX4_DIR \o <<"src", "modules", "mavlink", "mavlink", "pymavlink">>

PymavlinkDirLe(v) == IF ~StrLess(THRESHOLD, v) THEN PymavlinkTop ELSE PymavlinkNested
PymavlinkDirOf(v) == IF StrLess(v, THRESHOLD) THEN PymavlinkTop ELSE PymavlinkNested
PYMAVLINK_DIR == PymavlinkDirOf(PX4_VERSION)

PX4_PATCHED == BUILD_DIR \o <<".px4-patched">>
PYMAVLINK_PATCHED == BUILD_DIR \o <<".pymavlink-patched">>
MAVLINK_COMMITED == BUILD_DIR \o <<".mavlink-commited">>
Markers == {PX4_PATCHED, PYMAVLINK_PATCHED, MAVLINK_COMMITED}

IsPrefix(p, q) == Len(p) <= Len(q) /\ SubSeq(q, 1, Len(p)) = p

\* os.path.isdir / os.path.isfile
isdir(p) == p \in fs
isfile(p) == p \in fs

\* the path and its leading directories
Makedirs(p) == { SubSeq(p, 1, k) : k \in 1..Len(p) }

\* shutil.rmtree: the directory and everything below it
RmtreeNothing(root, files) == files
RmtreeCheckoutOnly(root, files) == { p \in files : ~IsPrefix(PX4_DIR, p) }
Rmtree(root, files) == { p \in files : ~IsPrefix(root, p) }

\* what a recursive clone of tag v puts on disk: from the threshold on the
\* mavlink submodule carries pymavlink at the nested path
Px4Tree(v) == Makedirs(PX4_DIR) \cup
              (IF StrLess(v, THRESHOLD) THEN {} ELSE Makedirs(PymavlinkNested))

Bump(n) == IF n < MaxCount THEN n + 1 ELSE MaxCount

\* subprocess.check_call: a non-zero exit raises and nothing catches it
CheckCallIgnoreStatus(ok, next) == next
CheckCall(ok, next) == IF ok THEN next ELSE "aborted"
Status(ok) == IF ok THEN 0 ELSE 1

Flags == { f \in [pymavlink : BOOLEAN, px4 : BOOLEAN, wireshark : BOOLEAN,
                  targets : 1..MaxTargets] : f.wireshark => f.pymavlink }

\* content of the checkouts that survive a change of fs
Px4Keep(newfs, val, none) == IF PX4_DIR \in newfs THEN val ELSE none
PymKeep(newfs, val, none) == IF PYMAVLINK_DIR \in newfs THEN val ELSE none

\* ------------------------------------------------------------------- Init
\* The workspace left by an earlier complete run (no build flags) for lv.
Completed(lv) ==
    Px4Tree(lv) \cup {PX4_PATCHED, MAVLINK_COMMITED}
    \cup (IF StrLess(lv, THRESHOLD) THEN Makedirs(PymavlinkTop) ELSE {})

Init ==
    /\ PX4_VERSION \in Versions
    /\ \/ /\ fs = {}
          /\ px4Local = NoVersion
          /\ px4Applied = 0
          /\ commits = 0
       \/ \E lv \in Versions :
          /\ fs = Completed(lv)
          /\ px4Local = lv
          /\ px4Applied = 1
          /\ commits = 1
    /\ px4Dirty = FALSE
    /\ pymApplied = 0
    /\ pymDefs = FALSE
    /\ pc = "idle"
    /\ depth = 0
    /\ local_version = NoVersion
    /\ flags = [pymavlink |-> FALSE, px4 |-> FALSE, wireshark |-> FALSE, targets |-> 1]
    /\ tgt = 0
    /\ rc = 0
    /\ calls = <<>>
    /\ rerun = FALSE

Running == pc \notin {"idle", "done", "aborted"}

\* ------------------------------------------------------------------- main
\* python build.py [--pymavlink] [--px4] [--wireshark] [--targets ...]
StartRun(f) ==
    /\ ~Running
    /\ pc' = "clone_pymavlink"
    /\ flags' = f
    /\ rerun' = (pc = "done" /\ f = flags)
    /\ depth' = 0
    /\ local_version' = NoVersion
    /\ tgt' = 0
    /\ rc' = 0
    /\ calls' = <<>>
    /\ UNCHANGED <<PX4_VERSION, disk>>

\* --------------------------------------------------------- clone_pymavlink
ClonePymavlinkSkip ==
    /\ pc = "clone_pymavlink"
    /\ StrGeq(PX4_VERSION, THRESHOLD)
    /\ pc' = "clone_px4"
    /\ UNCHANGED <<PX4_VERSION, disk, depth, local_version, flags, tgt, rc, calls, rerun>>

PymavlinkPull(ok) ==
    /\ pc = "clone_pymavlink"
    /\ ~StrGeq(PX4_VERSION, THRESHOLD)
    /\ isdir(PYMAVLINK_DIR)
    /\ calls' = Append(calls, "git pull")
    /\ rc' = Status(ok)
    /\ pc' = CheckCall(ok, "clone_px4")
    /\ UNCHANGED <<PX4_VERSION, disk, depth, local_version, flags, tgt, rerun>>

\* the else branch ends clone_pymavlink
AfterPymavlinkCloneThenPull == "clone_pymavlink"
AfterPymavlinkClone == "clone_px4"

PymavlinkClone(ok) ==
    /\ pc = "clone_pymavlink"
    /\ ~StrGeq(PX4_VERSION, THRESHOLD)
    /\ ~isdir(PYMAVLINK_DIR)
    /\ calls' = Append(calls, "git clone pymavlink")
    /\ rc' = Status(ok)
    /\ pc' = CheckCall(ok, AfterPymavlinkClone)
    /\ fs' = IF ok THEN fs \cup Makedirs(PYMAVLINK_DIR) ELSE fs
    /\ UNCHANGED <<PX4_VERSION, px4Local, px4Applied, px4Dirty, commits, pymApplied,
                   pymDefs, depth, local_version, flags, tgt, rerun>>

\* --------------------------------------------------------------- clone_px4
\* the frame returns: into the calling frame after line 105, or into main
ReturnPc == IF depth > 0 THEN "px4_patch" ELSE "pip_upgrade"
ReturnDepth == IF depth > 0 THEN depth - 1 ELSE 0

\* local_version != PX4_VERSION
VersionMismatchOnUpgrade(local, wanted) == StrLess(local, wanted)
VersionMismatchAlways(local, wanted) == TRUE
VersionMismatch(local, wanted) == local # wanted

\* git remote show origin -n, then the comparison with PX4_VERSION
Px4RemoteShow(ok) ==
    /\ pc = "clone_px4"
    /\ isdir(PX4_DIR)
    /\ calls' = Append(calls, "git remote show")
    /\ rc' = Status(ok)
    /\ local_version' = IF ok THEN px4Local ELSE local_version
    /\ pc' = CheckCall(ok, IF VersionMismatch(px4Local, PX4_VERSION)
                            THEN "px4_rmtree" ELSE "px4_patch")
    /\ UNCHANGED <<PX4_VERSION, disk, depth, flags, tgt, rerun>>

\* shutil.rmtree(BUILD_DIR) and the recursive call
Px4Rmtree ==
    /\ pc = "px4_rmtree"
    /\ depth < MaxDepth
    /\ calls' = Append(calls, "rmtree BUILD_DIR")
    /\ fs' = Rmtree(BUILD_DIR, fs)
    /\ px4Local' = Px4Keep(fs', px4Local, NoVersion)
    /\ px4Applied' = Px4Keep(fs', px4Applied, 0)
    /\ px4Dirty' = Px4Keep(fs', px4Dirty, FALSE)
    /\ commits' = Px4Keep(fs', commits, 0)
    /\ pymApplied' = PymKeep(fs', pymApplied, 0)
    /\ pymDefs' = PymKeep(fs', pymDefs, FALSE)
    /\ depth' = depth + 1
    /\ pc' = "clone_px4"
    /\ UNCHANGED <<PX4_VERSION, local_version, flags, tgt, rc, rerun>>

\* git clone --depth 1 --branch PX4_VERSION --recurse-submodules
Px4Clone(ok) ==
    /\ pc = "clone_px4"
    /\ ~isdir(PX4_DIR)
    /\ calls' = Append(calls, "git clone PX4")
    /\ rc' = Status(ok)
    /\ pc' = CheckCall(ok, "px4_patch")
    /\ fs' = IF ok THEN fs \cup Px4Tree(PX4_VERSION) ELSE fs
    /\ px4Local' = IF ok THEN PX4_VERSION ELSE px4Local
    /\ UNCHANGED <<PX4_VERSION, px4Applied, px4Dirty, commits, pymApplied, pymDefs,
                   depth, local_version, flags, tgt, rerun>>

NeedsPx4PatchAlways == TRUE
NeedsPx4PatchNever == FALSE
NeedsPx4Patch == ~isfile(PX4_PATCHED)

\* git apply hil_gps_heading_<version>.patch in PX4_DIR
Px4Apply(ok) ==
    /\ pc = "px4_patch"
    /\ NeedsPx4Patch
    /\ calls' = Append(calls, "git apply px4")
    /\ rc' = Status(ok)
    /\ pc' = CheckCall(ok, "px4_touch")
    /\ px4Applied' = IF ok THEN Bump(px4Applied) ELSE px4Applied
    /\ px4Dirty' = (ok \/ px4Dirty)
    /\ UNCHANGED <<PX4_VERSION, fs, px4Local, commits, pymApplied, pymDefs, depth,
                   local_version, flags, tgt, rerun>>

\* touch_file(.px4-patched), then the frame returns
Px4Touch ==
    /\ pc = "px4_touch"
    /\ calls' = Append(calls, "touch .px4-patched")
    /\ fs' = fs \cup {PX4_PATCHED}
    /\ pc' = ReturnPc
    /\ depth' = ReturnDepth
    /\ UNCHANGED <<PX4_VERSION, px4Local, px4Applied, px4Dirty, commits, pymApplied,
                   pymDefs, local_version, flags, tgt, rc, rerun>>

\* the marker is there: nothing to do, the frame returns
Px4PatchSkip ==
    /\ pc = "px4_patch"
    /\ ~NeedsPx4Patch
    /\ pc' = ReturnPc
    /\ depth' = ReturnDepth
    /\ UNCHANGED <<PX4_VERSION, disk, local_version, flags, tgt, rc, calls, rerun>>

\* ---------------------------------------------------- install_dependencies
PipUpgrade(ok) ==
    /\ pc = "pip_upgrade"
    /\ calls' = Append(calls, "pip install pip wheel")
    /\ rc' = Status(ok)
    /\ pc' = CheckCall(ok, "pip_requirements")
    /\ UNCHANGED <<PX4_VERSION, disk, depth, local_version, flags, tgt, rerun>>

\* pip install -r PYMAVLINK_DIR/requirements.txt: no file, no success
PipRequirements(ok) ==
    /\ pc = "pip_requirements"
    /\ ok => isdir(PYMAVLINK_DIR)
    /\ calls' = Append(calls, "pip install requirements")
    /\ rc' = Status(ok)
    /\ pc' = CheckCall(ok, "inject")
    /\ UNCHANGED <<PX4_VERSION, disk, depth, local_version, flags, tgt, rerun>>

\* ------------------------------------------------- main: inject and commit
IsLegacyLayout == StrLess(PX4_VERSION, THRESHOLD)

\* message_definitions_dir of main
LegacyDefinitionsDir ==
    PX4_DIR \o <<"mavlink", "include", "mavlink", "v2.0", "message_definitions">>
NestedDefinitionsDir ==
    PX4_DIR \o <<"src", "modules", "mavlink", "mavlink", "message_definitions", "v1.0">>
MessageDefinitionsDir(v) ==
    IF StrLess(v, THRESHOLD) THEN LegacyDefinitionsDir ELSE NestedDefinitionsDir

InjectNeededAlways == TRUE
InjectNeededNever == FALSE
InjectNeeded == ~isfile(MAVLINK_COMMITED)

\* the marker is there: lines 309-350 are skipped
InjectSkip ==
    /\ pc = "inject"
    /\ ~InjectNeeded
    /\ pc' = "build_pymavlink"
    /\ UNCHANGED <<PX4_VERSION, disk, depth, local_version, flags, tgt, rc, calls, rerun>>

\* shutil.copyfile(bell.xml, bell_xml_def); the same file again changes nothing
InjectCopy ==
    /\ pc = "inject"
    /\ InjectNeeded
    /\ calls' = Append(calls, "copy bell.xml")
    /\ px4Dirty' = (px4Dirty \/ commits = 0)
    /\ pc' = IF IsLegacyLayout THEN "mavgen" ELSE "git_config_email"
    /\ UNCHANGED <<PX4_VERSION, fs, px4Local, px4Applied, commits, pymApplied, pymDefs,
                   depth, local_version, flags, tgt, rc, rerun>>

\* python -m pymavlink.tools.mavgen --lang=C, output into the PX4 tree
Mavgen(ok) ==
    /\ pc = "mavgen"
    /\ calls' = Append(calls, "mavgen C")
    /\ rc' = Status(ok)
    /\ pc' = CheckCall(ok, "git_config_email")
    /\ px4Dirty' = (ok \/ px4Dirty)
    /\ UNCHANGED <<PX4_VERSION, fs, px4Local, px4Applied, commits, pymApplied, pymDefs,
                   depth, local_version, flags, tgt, rerun>>

GitConfigEmail(ok) ==
    /\ pc = "git_config_email"
    /\ calls' = Append(calls, "git config user.email")
    /\ rc' = Status(ok)
    /\ pc' = CheckCall(ok, "git_config_name")
    /\ UNCHANGED <<PX4_VERSION, disk, depth, local_version, flags, tgt, rerun>>

GitConfigName(ok) ==
    /\ pc = "git_config_name"
    /\ calls' = Append(calls, "git config user.name")
    /\ rc' = Status(ok)
    /\ pc' = CheckCall(ok, "git_add")
    /\ UNCHANGED <<PX4_VERSION, disk, depth, local_version, flags, tgt, rerun>>

GitAdd(ok) ==
    /\ pc = "git_add"
    /\ calls' = Append(calls, "git add")
    /\ rc' = Status(ok)
    /\ pc' = CheckCall(ok, "git_commit")
    /\ UNCHANGED <<PX4_VERSION, disk, depth, local_version, flags, tgt, rerun>>

\* git commit: exits non-zero when there is nothing to commit
GitCommit(ok) ==
    /\ pc = "git_commit"
    /\ ok => px4Dirty
    /\ calls' = Append(calls, "git commit")
    /\ rc' = Status(ok)
    /\ pc' = CheckCall(ok, "commit_touch")
    /\ commits' = IF ok THEN Bump(commits) ELSE commits
    /\ px4Dirty' = IF ok THEN FALSE ELSE px4Dirty
    /\ UNCHANGED <<PX4_VERSION, fs, px4Local, px4Applied, pymApplied, pymDefs, depth,
                   local_version, flags, tgt, rerun>>

\* touch_file(.mavlink-commited)
CommitTouch ==
    /\ pc = "commit_touch"
    /\ calls' = Append(calls, "touch .mavlink-commited")
    /\ fs' = fs \cup {MAVLINK_COMMITED}
    /\ pc' = "build_pymavlink"
    /\ UNCHANGED <<PX4_VERSION, px4Local, px4Applied, px4Dirty, commits, pymApplied,
                   pymDefs, depth, local_version, flags, tgt, rc, rerun>>

\* --------------------------------------------------------- build_pymavlink
BuildPymavlinkSkip ==
    /\ pc = "build_pymavlink"
    /\ ~flags.pymavlink
    /\ pc' = "build_px4"
    /\ UNCHANGED <<PX4_VERSION, disk, depth, local_version, flags, tgt, rc, calls, rerun>>

NeedsPymPatchAlways == TRUE
NeedsPymPatch == ~isfile(PYMAVLINK_PATCHED)

\* git reset --hard: the tracked files are those of HEAD again
ResetHardKeeps(applied) == applied
ResetHard(applied) == 0

\* git reset --hard in PYMAVLINK_DIR
PymReset(ok) ==
    /\ pc = "build_pymavlink"
    /\ flags.pymavlink
    /\ NeedsPymPatch
    /\ ok => isdir(PYMAVLINK_DIR)
    /\ calls' = Append(calls, "git reset")
    /\ rc' = Status(ok)
    /\ pc' = CheckCall(ok, "pym_apply")
    /\ pymApplied' = IF ok THEN ResetHard(pymApplied) ELSE pymApplied
    /\ UNCHANGED <<PX4_VERSION, fs, px4Local, px4Applied, px4Dirty, commits, pymDefs,
                   depth, local_version, flags, tgt, rerun>>

\* git apply pymavlink_<version>.patch in PYMAVLINK_DIR
PymApply(ok) ==
    /\ pc = "pym_apply"
    /\ calls' = Append(calls, "git apply pymavlink")
    /\ rc' = Status(ok)
    /\ pc' = CheckCall(ok, "pym_touch")
    /\ pymApplied' = IF ok THEN Bump(pymApplied) ELSE pymApplied
    /\ UNCHANGED <<PX4_VERSION, fs, px4Local, px4Applied, px4Dirty, commits, pymDefs,
                   depth, local_version, flags, tgt, rerun>>

\* touch_file(.pymavlink-patched)
PymTouch ==
    /\ pc = "pym_touch"
    /\ calls' = Append(calls, "touch .pymavlink-patched")
    /\ fs' = fs \cup {PYMAVLINK_PATCHED}
    /\ pc' = "copy_defs"
    /\ UNCHANGED <<PX4_VERSION, px4Local, px4Applied, px4Dirty, commits, pymApplied,
                   pymDefs, depth, local_version, flags, tgt, rc, rerun>>

PymPatchSkip ==
    /\ pc = "build_pymavlink"
    /\ flags.pymavlink
    /\ ~NeedsPymPatch
    /\ pc' = "copy_defs"
    /\ UNCHANGED <<PX4_VERSION, disk, depth, local_version, flags, tgt, rc, calls, rerun>>

\* rmtree + copytree of message_definitions/v1.0 in PYMAVLINK_DIR
CopyDefs ==
    /\ pc = "copy_defs"
    /\ calls' = Append(calls, "copy message_definitions")
    /\ pymDefs' = TRUE
    /\ pc' = "setup_py"
    /\ UNCHANGED <<PX4_VERSION, fs, px4Local, px4Applied, px4Dirty, commits, pymApplied,
                   depth, local_version, flags, tgt, rc, rerun>>

\* python setup.py sdist bdist_wheel with MAVLINK_DIALECT=bell
SetupPy(ok) ==
    /\ pc = "setup_py"
    /\ calls' = Append(calls, "setup.py")
    /\ rc' = Status(ok)
    /\ pc' = CheckCall(ok, "copy_dist")
    /\ UNCHANGED <<PX4_VERSION, disk, depth, local_version, flags, tgt, rerun>>

\* the package files go to DIST_DIR
CopyDist ==
    /\ pc = "copy_dist"
    /\ calls' = Append(calls, "copy dist")
    /\ pc' = IF flags.wireshark THEN "wireshark" ELSE "build_px4"
    /\ UNCHANGED <<PX4_VERSION, disk, depth, local_version, flags, tgt, rc, rerun>>

\* python -m pymavlink.tools.mavgen --lang=WLua
Wireshark(ok) ==
    /\ pc = "wireshark"
    /\ calls' = Append(calls, "mavgen WLua")
    /\ rc' = Status(ok)
    /\ pc' = CheckCall(ok, "build_px4")
    /\ UNCHANGED <<PX4_VERSION, disk, depth, local_version, flags, tgt, rerun>>

\* --------------------------------------------------------------- build_px4
BuildPx4Skip ==
    /\ pc = "build_px4"
    /\ ~flags.px4
    /\ pc' = "done"
    /\ UNCHANGED <<PX4_VERSION, disk, depth, local_version, flags, tgt, rc, calls, rerun>>

\* make <target> -j in PX4_DIR
Make(ok) ==
    /\ pc = "build_px4"
    /\ flags.px4
    /\ calls' = Append(calls, "make")
    /\ rc' = Status(ok)
    /\ pc' = CheckCall(ok, "copy_image")
    /\ UNCHANGED <<PX4_VERSION, disk, depth, local_version, flags, tgt, rerun>>

\* the image goes to DIST_DIR; next target or the end of main
CopyImage ==
    /\ pc = "copy_image"
    /\ calls' = Append(calls, "copy image")
    /\ tgt' = tgt + 1
    /\ pc' = IF tgt + 1 < flags.targets THEN "build_px4" ELSE "done"
    /\ UNCHANGED <<PX4_VERSION, disk, depth, local_version, flags, rc, rerun>>

\* ------------------------------------------------------------ termination
\* an external signal ends the run wherever it is
Kill ==
    /\ Running
    /\ pc' = "aborted"
    /\ UNCHANGED <<PX4_VERSION, disk, depth, local_version, flags, tgt, rc, calls, rerun>>

Next ==
    \/ \E f \in Flags : StartRun(f)
    \/ ClonePymavlinkSkip
    \/ \E ok \in BOOLEAN : PymavlinkPull(ok)
    \/ \E ok \in BOOLEAN : PymavlinkClone(ok)
    \/ \E ok \in BOOLEAN : Px4RemoteShow(ok)
    \/ Px4Rmtree
    \/ \E ok \in BOOLEAN : Px4Clone(ok)
    \/ \E ok \in BOOLEAN : Px4Apply(ok)
    \/ Px4Touch
    \/ Px4PatchSkip
    \/ \E ok \in BOOLEAN : PipUpgrade(ok)
    \/ \E ok \in BOOLEAN : PipRequirements(ok)
    \/ InjectSkip
    \/ InjectCopy
    \/ \E ok \in BOOLEAN : Mavgen(ok)
    \/ \E ok \in BOOLEAN : GitConfigEmail(ok)
    \/ \E ok \in BOOLEAN : GitConfigName(ok)
    \/ \E ok \in BOOLEAN : GitAdd(ok)
    \/ \E ok \in BOOLEAN : GitCommit(ok)
    \/ CommitTouch
    \/ BuildPymavlinkSkip
    \/ \E ok \in BOOLEAN : PymReset(ok)
    \/ \E ok \in BOOLEAN : PymApply(ok)
    \/ PymTouch
    \/ PymPatchSkip
    \/ CopyDefs
    \/ \E ok \in BOOLEAN : SetupPy(ok)
    \/ CopyDist
    \/ \E ok \in BOOLEAN : Wireshark(ok)
    \/ BuildPx4Skip
    \/ \E ok \in BOOLEAN : Make(ok)
    \/ CopyImage
    \/ Kill

Spec == Init /\ [][Next]_vars

TypeOK ==
    /\ PX4_VERSION \in Versions
    /\ px4Applied \in 0..MaxCount
    /\ commits \in 0..MaxCount
    /\ pymApplied \in 0..MaxCount
    /\ depth \in 0..MaxDepth
    /\ tgt \in 0..MaxTargets
    /\ rc \in {0, 1}

\* ============================================================== properties
Has(op) == \E i \in DOMAIN calls : calls[i] = op
Count(op) == Cardinality({ i \in DOMAIN calls : calls[i] = op })
Appended(op) == calls' = Append(calls, op)
Last(q) == q[Len(q)]

\* clone_pymavlink has just returned into main
AfterClonePymavlink == pc = "clone_px4" /\ depth = 0 /\ ~Has("git remote show")
                       /\ ~Has("git clone PX4")
\* clone_px4 has just returned into main
AfterClonePx4 == pc = "pip_upgrade"

\* C1: a marker file is present only if its guarded action (firmware patch,
\* codec-generator patch, synthetic commit) has completed on the checkout that
\* is in the workspace now; failed and aborted runs never leave a marker for
\* an action that is not done.
C1_MarkerOnlyAfterAction ==
    /\ isfile(PX4_PATCHED) => (isdir(PX4_DIR) /\ px4Applied >= 1)
    /\ isfile(PYMAVLINK_PATCHED) => (isdir(PYMAVLINK_DIR) /\ pymApplied >= 1)
    /\ isfile(MAVLINK_COMMITED) => (isdir(PX4_DIR) /\ commits >= 1)

\* a run whose codec patch failed: the two earlier markers are there, made by
\* this run on a fresh checkout, and the failed step left none
C1_Witness ==
    /\ pc = "aborted" /\ rc = 1
    /\ calls # <<>> /\ Last(calls) = "git apply pymavlink"
    /\ Has("git clone PX4") /\ Has("touch .px4-patched") /\ Has("touch .mavlink-commited")
    /\ isfile(PX4_PATCHED) /\ isfile(MAVLINK_COMMITED) /\ ~isfile(PYMAVLINK_PATCHED)

\* C2: when clone_px4 finds a checkout declaring another version it removes
\* the whole workspace directory (checkout, codec checkout, every marker) and
\* returns with a fresh checkout of the requested version; when the declared
\* version is the requested one it removes nothing and clones nothing.
C2_MismatchDestroysAndReclones ==
    /\ (pc = "clone_px4" /\ depth > 0) => \A p \in fs : ~IsPrefix(BUILD_DIR, p)
    /\ (AfterClonePx4 /\ local_version \notin {NoVersion, PX4_VERSION}) =>
          /\ Count("rmtree BUILD_DIR") = 1
          /\ Count("git clone PX4") = 1
          /\ isdir(PX4_DIR) /\ px4Local = PX4_VERSION
          /\ commits = 0 /\ px4Applied = 1
          /\ ~isfile(MAVLINK_COMMITED) /\ ~isfile(PYMAVLINK_PATCHED)
          /\ ~isdir(PymavlinkTop)
    /\ (AfterClonePx4 /\ local_version = PX4_VERSION) =>
          /\ ~Has("rmtree BUILD_DIR")
          /\ ~Has("git clone PX4")
          /\ px4Local = PX4_VERSION

\* the old workspace had markers and a codec checkout; all are gone on return
C2_Witness ==
    /\ AfterClonePx4
    /\ local_version \notin {NoVersion, PX4_VERSION}
    /\ Has("git pull") /\ Has("rmtree BUILD_DIR")
    /\ px4Local = PX4_VERSION

\* C3: the marker-guarded patch block of clone_px4, executed again after it
\* succeeded, applies nothing and leaves checkout and marker as they are; a
\* run that executes the block twice (inner and outer frame after a re-clone)
\* applies the patch exactly once.
C3_PatchIdempotent ==
    /\ [][(pc = "px4_patch" /\ isfile(PX4_PATCHED)) => (disk' = disk /\ calls' = calls)]_vars
    /\ [](Count("git apply px4") <= 1)
    /\ []((AfterClonePx4 /\ Has("rmtree BUILD_DIR")) =>
              (Count("git apply px4") = 1 /\ px4Applied = 1 /\ isfile(PX4_PATCHED)))

\* the outer frame has run the block after the inner frame patched
C3_Witness ==
    /\ AfterClonePx4
    /\ Has("rmtree BUILD_DIR")
    /\ Count("git apply px4") = 1
    /\ Count("touch .px4-patched") = 1

InjectOps == {"copy bell.xml", "mavgen C", "git config user.email",
              "git config user.name", "git add", "git commit",
              "touch .mavlink-commited"}

\* C4: with the commit marker present the inject-and-commit step copies
\* nothing, regenerates nothing, runs no git config / add / commit and leaves
\* the number of commits alone; the step that creates the marker has made
\* exactly one commit.
C4_InjectIdempotent ==
    /\ [][isfile(MAVLINK_COMMITED) =>
             /\ \A op \in InjectOps : ~Appended(op)
             /\ (commits' = commits \/ PX4_DIR \notin fs')]_vars
    /\ [][(pc = "inject" /\ isfile(MAVLINK_COMMITED)) =>
             (disk' = disk /\ calls' = calls)]_vars
    /\ [](pc = "commit_touch" => Count("git commit") = 1)

\* second run after a complete one: the step was skipped, one commit exists
C4_Witness ==
    /\ rerun
    /\ pc = "build_pymavlink"
    /\ \A op \in InjectOps : ~Has(op)
    /\ commits = 1
    /\ ~Has("git clone PX4")

C6_Threshold ==
    /\ StrLess(PX4_VERSION, THRESHOLD) =>
          /\ PYMAVLINK_DIR = PymavlinkTop
          /\ AfterClonePymavlink =>
                /\ calls \in {<<"git pull">>, <<"git clone pymavlink">>}
                /\ isdir(PymavlinkTop)
    /\ ~StrLess(PX4_VERSION, THRESHOLD) =>
          /\ IsPrefix(PX4_DIR, PYMAVLINK_DIR)
          /\ ~Has("git pull") /\ ~Has("git clone pymavlink")
          /\ AfterClonePymavlink => calls = <<>>

\* "v1.9.0" is not below the threshold as a string: nested, nothing issued
C6_Witness ==
    /\ PX4_VERSION = MkVersion(9, 0)
    /\ AfterClonePymavlink
    /\ PYMAVLINK_DIR = PymavlinkNested
    /\ calls = <<>>

\* C7: a run that follows a complete run of the same version with the same
\* arguments applies no patch, makes no commit and never removes the
\* workspace.
C7_RerunDoesNothingOnce ==
    rerun => /\ ~Has("git apply px4")
             /\ ~Has("git apply pymavlink")
             /\ ~Has("git commit")
             /\ ~Has("rmtree BUILD_DIR")

\* the second run with --pymavlink --px4 has finished
C7_Witness ==
    /\ rerun
    /\ pc = "done"
    /\ flags.pymavlink /\ flags.px4
    /\ Has("setup.py") /\ Has("make")

\* C8: after an external invocation fails the run is over: no further step
\* of the run is taken, the failed step is not issued again and the disk,
\* markers included, stays as the failure left it.
C8_AbortOnFirstFailure ==
    /\ [](rc # 0 => pc = "aborted")
    /\ [][rc # 0 => (disk' = disk /\ calls' = <<>>)]_vars

\* the firmware patch failed: run over, no marker
C8_Witness ==
    /\ rc = 1
    /\ pc = "aborted"
    /\ calls # <<>> /\ Last(calls) = "git apply px4"
    /\ ~isfile(PX4_PATCHED)

SyncOps == {"git pull", "git clone pymavlink", "git remote show", "rmtree BUILD_DIR",
            "git clone PX4", "git apply px4", "touch .px4-patched"}
DepsOps == {"pip install pip wheel", "pip install requirements"}
DepsPcs == {"pip_upgrade", "pip_requirements"}
InjectPcs == {"inject", "mavgen", "git_config_email", "git_config_name", "git_add",
              "git_commit", "commit_touch"}
BuildPcs == {"build_pymavlink", "pym_apply", "pym_touch", "copy_defs", "setup_py",
             "copy_dist", "wireshark", "build_px4", "copy_image"}
Before(A, B) == \A i, j \in DOMAIN calls : (calls[i] \in A /\ calls[j] \in B) => i < j

Synced == isdir(PX4_DIR) /\ px4Local = PX4_VERSION
PatchDone == isfile(PX4_PATCHED) /\ px4Applied >= 1
CommitDone == isfile(MAVLINK_COMMITED) /\ commits >= 1

\* C9: make runs only after the checkout is at the requested version, the
\* firmware patch marker is present, the dependencies are installed and the
\* commit marker is present, reached in this order.
C9_OrderBeforeBuild ==
    /\ pc \in DepsPcs => (Synced /\ PatchDone)
    /\ pc \in InjectPcs => (Synced /\ PatchDone /\ Has("pip install requirements"))
    /\ pc \in BuildPcs =>
          (Synced /\ PatchDone /\ Has("pip install requirements") /\ CommitDone)
    /\ Has("make") => (PatchDone /\ CommitDone)
    /\ Before(SyncOps, DepsOps)
    /\ Before(DepsOps, InjectOps)
    /\ Before(SyncOps \cup DepsOps \cup InjectOps, {"make"})

\* first run on an empty workspace, make has run
C9_Witness ==
    /\ pc = "copy_image"
    /\ Has("git clone PX4") /\ Has("git apply px4")
    /\ Has("pip install requirements") /\ Has("git commit")

\* C10 as claimed: when the codec-generator checkout does not exist the run
\* clones it and then pulls it.
C10_CloneThenPull ==
    (Has("git clone pymavlink") /\ pc # "clone_pymavlink" /\ pc # "aborted")
        => Has("git pull")

\* C10 amended: when the codec-generator checkout does not exist (version
\* below the threshold) the run clones it and does not pull; a run pulls only
\* when the checkout is already there, and then it does not clone.
C10_CloneOrPull ==
    /\ ~(Has("git clone pymavlink") /\ Has("git pull"))
    /\ Count("git clone pymavlink") + Count("git pull") <= 1
    /\ (StrLess(PX4_VERSION, THRESHOLD) /\ Running /\ pc # "clone_pymavlink")
          => (Has("git clone pymavlink") \/ Has("git pull"))

\* a complete run that cloned the codec generator
C10_Witness ==
    /\ pc = "done"
    /\ Has("git clone pymavlink")
    /\ ~Has("git pull")

ExternalOps == {"git pull", "git clone pymavlink", "git remote show", "git clone PX4",
                "git apply px4", "pip install pip wheel", "pip install requirements",
                "mavgen C", "git config user.email", "git config user.name",
                "git add", "git commit", "git reset", "git apply pymavlink",
                "setup.py", "mavgen WLua", "make"}
PackageOps == {"git reset", "git apply pymavlink", "touch .pymavlink-patched",
               "copy message_definitions", "setup.py", "copy dist", "mavgen WLua",
               "make", "copy image"}

\* C11 as claimed: in a run that follows a complete run of the same version
\* with the same arguments the synchronisation, patch, dependency and
\* injection stages issue no external action; only build and package steps
\* are issued.
C11_RerunOnlyBuilds ==
    rerun => \A i \in DOMAIN calls : calls[i] \in PackageOps

\* C11 amended: in such a run the patch and injection stages issue nothing,
\* nothing is cloned and nothing is removed; the synchronisation stage still
\* queries the firmware checkout (and pulls the codec checkout below the
\* threshold) and the dependency stage installs again, before the build and
\* package steps.
C11_RerunQueriesAndInstalls ==
    rerun =>
       /\ \A i \in DOMAIN calls :
             calls[i] \in {"git pull", "git remote show"} \cup DepsOps \cup PackageOps
       /\ (Running /\ pc # "clone_pymavlink") =>
             (StrLess(PX4_VERSION, THRESHOLD) <=> Has("git pull"))
       /\ pc \in DepsPcs \cup InjectPcs \cup BuildPcs \cup {"done"} => Has("git remote show")
       /\ pc \in InjectPcs \cup BuildPcs \cup {"done"} => Has("pip install requirements")

\* the second run has finished: it pulled, queried and installed, then built
C11_Witness ==
    /\ rerun
    /\ pc = "done"
    /\ flags.px4
    /\ Has("git pull") /\ Has("git remote show") /\ Has("pip install requirements")
    /\ Has("make")

\* C12: when install_dependencies starts, the codec-generator checkout whose
\* requirements.txt it reads exists.
C12_CodecCheckoutAtInstall ==
    pc \in DepsPcs => isdir(PYMAVLINK_DIR)

\* The firmware checkout differs from its last commit: changes of its own, or
\* changes inside the codec generator when that lives below PX4_DIR.
Px4TreeModified ==
    \/ px4Dirty
    \/ (IsPrefix(PX4_DIR, PYMAVLINK_DIR) /\ (pymApplied > 0 \/ pymDefs))

\* C13: whenever make is invoked the firmware checkout holds no modification
\* made after the synthetic commit, for every version and every combination
\* of flags, codec packaging before the build included.
C13_CleanTreeAtBuild ==
    (pc = "build_px4" /\ flags.px4) => ~Px4TreeModified

\* the calls of the run from the removal of the workspace on
SinceRmtree ==
    LET i == CHOOSE k \in DOMAIN calls : calls[k] = "rmtree BUILD_DIR"
    IN  SubSeq(calls, i, Len(calls))

\* C14: after a destroy-and-reclone the inner frame of clone_px4 applies the
\* patch and creates .px4-patched, the outer frame finds the marker and
\* skips: on return the fresh checkout carries the patch exactly once.
C14_RecloneAppliesOnce ==
    /\ (pc = "px4_patch" /\ depth = 0 /\ Has("rmtree BUILD_DIR")) =>
          (isfile(PX4_PATCHED) /\ px4Applied = 1)
    /\ (AfterClonePx4 /\ Has("rmtree BUILD_DIR")) =>
          /\ SinceRmtree = <<"rmtree BUILD_DIR", "git clone PX4", "git apply px4",
                             "touch .px4-patched">>
          /\ px4Applied = 1
          /\ isfile(PX4_PATCHED)
          /\ px4Local = PX4_VERSION

\* the outer frame is at its marker check, the inner frame has patched
C14_Witness ==
    /\ pc = "px4_patch" /\ depth = 0
    /\ Has("rmtree BUILD_DIR")
    /\ Has("touch .px4-patched")

\* C15: every git apply of the codec patch comes directly after a git reset
\* --hard of the same run and so acts on a tree without the patch, also
\* after a run that ended between patch and marker; with .pymavlink-patched
\* present no reset is issued and the patch in the tree stays.
C15_ResetBeforeCodecPatch ==
    /\ [](\A i \in DOMAIN calls : calls[i] = "git apply pymavlink" =>
              (i > 1 /\ calls[i - 1] = "git reset"))
    /\ [][Appended("git apply pymavlink") => pymApplied = 0]_vars
    /\ [][isfile(PYMAVLINK_PATCHED) =>
             (~Appended("git reset") /\ (pymApplied' = pymApplied \/ PYMAVLINK_DIR \notin fs'))]_vars

\* an existing codec checkout was reset and patched; the marker is not yet
\* written, the tree carries the patch once
C15_Witness ==
    /\ pc = "pym_touch"
    /\ rerun = FALSE
    /\ calls # <<>> /\ Last(calls) = "git apply pymavlink"
    /\ ~Has("git clone PX4") /\ ~Has("git clone pymavlink")
    /\ pymDefs = FALSE
    /\ pymApplied = 1
    /\ ~isfile(PYMAVLINK_PATCHED)

\* C16: .pymavlink-patched is present only with .mavlink-commited, and
\* .mavlink-commited only with .px4-patched and the firmware checkout.
C16_MarkersOrdered ==
    /\ isfile(PYMAVLINK_PATCHED) => isfile(MAVLINK_COMMITED)
    /\ isfile(MAVLINK_COMMITED) => (isfile(PX4_PATCHED) /\ isdir(PX4_DIR))

\* all three markers, made by a run that removed the old workspace
C16_Witness ==
    /\ Has("rmtree BUILD_DIR")
    /\ Has("touch .px4-patched") /\ Has("touch .mavlink-commited")
    /\ Has("touch .pymavlink-patched")
    /\ Markers \subseteq fs

\* C17: clone_px4 calls itself at most once in a run: the inner frame finds
\* no checkout and clones without a version check, so a run removes the
\* workspace at most once and clones the firmware at most once.
C17_OneRecursion ==
    /\ depth <= 1
    /\ Count("rmtree BUILD_DIR") <= 1
    /\ Count("git clone PX4") <= 1
    /\ Count("git remote show") <= 1
    /\ depth = 1 => (Has("rmtree BUILD_DIR") /\ pc # "px4_rmtree")

\* the inner frame has cloned and is at its marker check
C17_Witness ==
    /\ depth = 1
    /\ pc = "px4_patch"
    /\ Has("git clone PX4")

Synchronised == Has("git pull") \/ Has("git clone pymavlink")

\* C18: for every version the four layout decisions agree: the codec path is
\* the top-level one exactly when clone_pymavlink synchronises it, exactly
\* when the legacy message-definition directory is selected, exactly when
\* mavgen runs in a first injection.
C18_LayoutConsistent ==
    /\ (PYMAVLINK_DIR = PymavlinkTop) <=>
          (MessageDefinitionsDir(PX4_VERSION) = LegacyDefinitionsDir)
    /\ (PYMAVLINK_DIR = PymavlinkNested) <=>
          (MessageDefinitionsDir(PX4_VERSION) = NestedDefinitionsDir)
    /\ (Running /\ pc # "clone_pymavlink") =>
          ((PYMAVLINK_DIR = PymavlinkTop) <=> Synchronised)
    /\ Synchronised => PYMAVLINK_DIR = PymavlinkTop
    /\ pc \in {"git_config_email", "git_config_name", "git_add", "git_commit",
               "commit_touch"} =>
          ((PYMAVLINK_DIR = PymavlinkTop) <=> Has("mavgen C"))
    /\ Has("mavgen C") => (PYMAVLINK_DIR = PymavlinkTop /\ Synchronised)

\* first injection for "v1.9.0": nested layout, nothing synchronised, no mavgen
C18_Witness ==
    /\ PX4_VERSION = MkVersion(9, 0)
    /\ pc = "commit_touch"
    /\ PYMAVLINK_DIR = PymavlinkNested
    /\ ~Synchronised /\ ~Has("mavgen C")

====
